---------------------------- MODULE Spec2Model ----------------------------
(***************************************************************************)
(* The blockchain organizer and validator of                               *)
(* src/src/storage/postgresql_blockchain.cpp: the blocks and chains tables *)
(* of the relational store, the grafting of orphan trees into the          *)
(* nested-set forest (organize), the removal of a branch (delete_branch)   *)
(* and the promotion of orphan blocks of space 0 to valid (validate,       *)
(* finalize_status), the connection of a transaction's inputs             *)
(* (validate_transaction, connect_input) and the debouncing barrier        *)
(* (raise_barrier, reset_state, start_exec).                               *)
(*                                                                         *)
(* A table is modelled by its rows: blocks is a set of records (block_id   *)
(* is the key), chains is a sequence of records (the table declares no key *)
(* in the statements, so a chain_id may occur in several rows).  A         *)
(* nullable column holds <<>> (SQL NULL) or <<v>>.                         *)
(***************************************************************************)
EXTENDS Integers, Sequences, FiniteSets, TLC

VARIABLES
    blocks,            \* rows of table blocks
    chains,            \* rows of table chains, in insertion order
    pc,                \* position of the single worker: idle, organize, validate, exited
    orphans_results,   \* organize(): rows of orphans_statement not yet fetched
    validate_results,  \* validate(): rows of its statement not yet fetched
    graft,             \* organize(): locals of the last loop iteration
    seen,              \* block hashes the ingestion has delivered so far
    deletes,           \* number of delete_branch() calls so far
    examined,          \* validate() of this start() has fetched a row
    barrier,           \* barrier_level_, timer_started_ and the state of timeout_
    op,                \* the last operation on the barrier
    passes,            \* start() runs made by that operation
    calls,             \* raise_barrier() calls since the last start() began
    arms,              \* async_wait() calls since the last start() began
    raised,            \* barrier_level_++ executed since the last reset_state()
    tpc,               \* each ingestion thread's position in raise_barrier()
    treg,              \* each ingestion thread's copy of barrier_level_
    db,                \* connect_input(): the rows its queries read
    input_index,       \* validate_transaction(): the next input to connect
    value_in,          \* validate_transaction(): the uint64_t accumulator
    verdict,           \* validate_transaction(): idle, running, accepted, rejected
    last,              \* what the last connect_input() call saw and returned
    running,           \* the multi-statement operation under way on the tables
    tree,              \* the blocks table a time query reads
    measured           \* the last time query: its block, arguments and result

\* The organizer and validator part of the state.
store_vars == <<blocks, chains, pc, orphans_results, validate_results, graft,
                seen, deletes, examined>>

\* The state outside the organizer and validator.
barrier_vars == <<barrier, op, passes, calls, arms, raised>>

thread_vars == <<tpc, treg>>

input_vars == <<db, input_index, value_in, verdict, last>>

statement_vars == <<running>>

time_vars == <<tree, measured>>

other_vars == <<barrier_vars, thread_vars, input_vars, statement_vars,
                time_vars>>

vars == <<store_vars, other_vars>>

\* ------------------------------------------------------------------ bounds

\* Blocks the ingestion delivers besides the genesis block.
MaxBlocks == 4

\* Calls of delete_branch() in one behaviour.
MaxDeletes == 1

\* barrier_clearance_level_ (400 unless set_clearance() changes it).
Clearance == 2

\* raise_barrier() calls without a start() in between.
MaxCalls == 4

\* Timer waits pending plus completion handlers not yet delivered.
MaxHandlers == 3

\* Ingestion threads that call raise_barrier().
NumThreads == 2

\* A thread starts barrier_level_++ only while barrier_level_ is below
\* this (unlocked increments can carry the level past the clearance).
MaxLevel == 3

\* Depth of the block under validation.
MaxDepth == 3

\* Inputs of the transaction under validation.
MaxInputs == 2

\* Depth of the deepest block of the trunk a time query reads.
MaxTrunk == 12

\* Blocks of the side branch beside the trunk.
MaxSide == 2

\* Ways of laying timestamps along a branch.
NumPatterns == 3

\* Largest interval handed to actual_timespan().
MaxInterval == 4

\* size_t and uint64_t, scaled: arithmetic is modulo 2^SizeWidth and
\* 2^MoneyWidth.
SizeWidth == 4

MoneyWidth == 6

\* coinbase_maturity and max_money(), scaled with the widths: as in the
\* program, coinbase_maturity + MaxDepth < 2^SizeWidth and
\* 2 * max_money < 2^MoneyWidth.
coinbase_maturity == 2

max_money == 21

\* ------------------------------------------------------------- SQL values

NULL == <<>>

Val(v) == <<v>>

IsNull(x) == x = NULL

\* Arithmetic on a nullable numeric: NULL if either operand is NULL.
SqlAdd(x, y) == IF IsNull(x) \/ IsNull(y) THEN NULL ELSE Val(x[1] + y[1])

SqlSub(x, y) == IF IsNull(x) \/ IsNull(y) THEN NULL ELSE Val(x[1] - y[1])

RECURSIVE SumOver(_, _)
\* The sum of f[x] over the finite set S.
SumOver(f, S) ==
    IF S = {} THEN 0
    ELSE LET x == CHOOSE y \in S : TRUE
         IN  f[x] + SumOver(f, S \ {x})


\* Stored function difficulty(bits_head, bits_body): the work a block of
\* that compact target contributes.
difficulty(bits_head, bits_body) == bits_head * bits_body

\* -------------------------------------------------------------- ingestion

GenesisId == 0

BlockIds == 0..MaxBlocks

\* The row the ingestion writes for a block whose ancestor is not known to
\* be in the main tree: the root of a new orphan tree, alone in its space.
OrphanRow(id, prev) ==
    [block_id |-> id, block_hash |-> id, prev_block_hash |-> prev,
     prev_block_id |-> NULL, space |-> id, depth |-> 0,
     span_left |-> 0, span_right |-> 0, status |-> "orphan",
     bits_head |-> 1, bits_body |-> 2 ^ id]

\* The genesis block: the root of the main tree, valid from the start.
GenesisRow ==
    [block_id |-> GenesisId, block_hash |-> GenesisId, prev_block_hash |-> -1,
     prev_block_id |-> NULL, space |-> 0, depth |-> 0,
     span_left |-> 0, span_right |-> 0, status |-> "valid",
     bits_head |-> 1, bits_body |-> 1]

GenesisChain ==
    [chain_id |-> 0,
     work |-> Val(difficulty(GenesisRow.bits_head, GenesisRow.bits_body)),
     depth |-> 0]

NoGraft == [child_id |-> -1, parent_id |-> -1, parent_width |-> -1,
            child_width |-> -1]

\* ---------------------------------------------------------------- lookups

Row(B, id) == CHOOSE b \in B : b.block_id = id

HasRow(B, id) == \E b \in B : b.block_id = id

\* load_span / load_position_info read the row of block_id; both fail
\* (return false) when there is no such row.
load_span(B, block_id) ==
    IF HasRow(B, block_id)
    THEN [ok |-> TRUE, left |-> Row(B, block_id).span_left,
          right |-> Row(B, block_id).span_right]
    ELSE [ok |-> FALSE, left |-> 0, right |-> 0]

load_position_info(B, block_id) ==
    IF HasRow(B, block_id)
    THEN [ok |-> TRUE, space |-> Row(B, block_id).space,
          depth |-> Row(B, block_id).depth,
          left |-> Row(B, block_id).span_left,
          right |-> Row(B, block_id).span_right]
    ELSE [ok |-> FALSE, space |-> 0, depth |-> 0, left |-> 0, right |-> 0]

get_block_width(B, space, depth, left, right) ==
    IF left < right THEN right - left + 1
    ELSE IF \E b \in B : /\ b.space = space
                         /\ b.depth > depth
                         /\ b.span_left >= left
                         /\ b.span_right <= right
         THEN 1
         ELSE 0

\* ------------------------------------------------------------ the organizer

\* UPDATE chains SET chain_id = chain_id + delta WHERE chain_id > bound
ShiftChains(C, delta, bound) ==
    [i \in 1..Len(C) |->
        IF C[i].chain_id > bound
        THEN [C[i] EXCEPT !.chain_id = @ + delta]
        ELSE C[i]]

\* DELETE FROM chains WHERE chain_id BETWEEN left AND right
DeleteChainRows(C, left, right) ==
    LET Keep(c) == ~(c.chain_id >= left /\ c.chain_id <= right)
    IN  SelectSeq(C, Keep)

delete_chains(C, left, right) ==
    LET offset == (right + 1) - left
    IN  ShiftChains(DeleteChainRows(C, left, right), -offset, right)

\* SUM(difficulty(bits_head, bits_body)) over the valid blocks of space 0
\* at depth >= depth whose span holds chain_id; NULL when no row qualifies.
UnwindSum(B, depth, chain_id) ==
    LET S == {b \in B : /\ b.space = 0
                        /\ b.depth >= depth
                        /\ b.span_left <= chain_id
                        /\ b.span_right >= chain_id
                        /\ b.status = "valid"}
        d == [b \in S |-> difficulty(b.bits_head, b.bits_body)]
    IN  IF S = {} THEN NULL ELSE Val(SumOver(d, S))

unwind_chain(B, C, depth, chain_id) ==
    [i \in 1..Len(C) |->
        IF C[i].chain_id = chain_id
        THEN [C[i] EXCEPT !.work = SqlSub(@, UnwindSum(B, depth, chain_id))]
        ELSE C[i]]

\* A lonely_child query that finds no row.
LonelyNever(B, space, depth, span_left, span_right) == FALSE

\* The lonely_child query of delete_branch: a row one level up with the
\* very same span.
LonelyChildRow(B, space, depth, span_left, span_right) ==
    \E b \in B : /\ b.space = space
                 /\ b.depth = depth - 1
                 /\ b.span_left = span_left
                 /\ b.span_right = span_right

\* DELETE FROM blocks WHERE space=? AND depth >= ? AND span_left >= ?
\* AND span_right <= ?
DeleteBlockRows(B, space, depth, span_left, span_right) ==
    {b \in B : ~(/\ b.space = space
                 /\ b.depth >= depth
                 /\ b.span_left >= span_left
                 /\ b.span_right <= span_right)}

\* adjust_left of delete_branch
AdjustLeft(B, offset, space, span_right) ==
    {IF b.space = space /\ b.span_left > span_right
     THEN [b EXCEPT !.span_left = @ - offset]
     ELSE b : b \in B}

\* adjust_right of delete_branch
AdjustRight(B, offset, space, span_right) ==
    {IF b.space = space /\ b.span_right >= span_right
     THEN [b EXCEPT !.span_right = @ - offset]
     ELSE b : b \in B}

delete_branch(B, C, space, depth, span_left, span_right) ==
    LET lonely == LonelyChildRow(B, space, depth, span_left, span_right)
        offset == IF lonely THEN span_right - span_left
                  ELSE span_right - span_left + 1
        C1 == IF lonely
              THEN unwind_chain(B, delete_chains(C, span_left + 1, span_right),
                                depth, span_left)
              ELSE delete_chains(C, span_left, span_right)
        B1 == DeleteBlockRows(B, space, depth, span_left, span_right)
        B2 == AdjustLeft(B1, offset, space, span_right)
        B3 == AdjustRight(B2, offset, space, span_right)
    IN  [blocks |-> B3, chains |-> C1]

\* update_right of reserve_branch_area
UpdateRight(B, child_width, parent_space, parent_right) ==
    {IF b.space = parent_space /\ b.span_right > parent_right
     THEN [b EXCEPT !.span_right = @ + child_width]
     ELSE b : b \in B}

\* UpdateLeft with the statement left out: the rows to the right keep
\* their span_left.
UpdateLeftSkipped(B, child_width, parent_space, parent_right) == B

\* update_left of reserve_branch_area
UpdateLeft(B, child_width, parent_space, parent_right) ==
    {IF b.space = parent_space /\ b.span_left > parent_right
     THEN [b EXCEPT !.span_left = @ + child_width]
     ELSE b : b \in B}

\* UpdateParents widening the parent alone and none of its ancestors.
UpdateParentsOnlyParent(B, child_width, parent_space, new_child_depth, parent_right) ==
    {IF /\ b.space = parent_space
        /\ b.depth = new_child_depth - 1
        /\ b.span_right = parent_right
     THEN [b EXCEPT !.span_right = @ + child_width]
     ELSE b : b \in B}

\* update_parents of reserve_branch_area
UpdateParents(B, child_width, parent_space, new_child_depth, parent_right) ==
    {IF /\ b.space = parent_space
        /\ b.depth < new_child_depth
        /\ b.span_right = parent_right
     THEN [b EXCEPT !.span_right = @ + child_width]
     ELSE b : b \in B}

\* INSERT INTO chains SELECT work, chain_id + sub_chain, depth FROM chains
\* WHERE chain_id = parent_left
TweenInsert(C, sub_chain, parent_left) ==
    LET IsSource(c) == c.chain_id = parent_left
        src == SelectSeq(C, IsSource)
    IN  C \o [i \in 1..Len(src) |->
                [src[i] EXCEPT !.chain_id = @ + sub_chain]]

RECURSIVE TweenChains(_, _, _, _)
\* The loop over sub_chain in [from, to) of reserve_branch_area.
TweenChains(C, from, to, parent_left) ==
    IF from < to
    THEN TweenChains(TweenInsert(C, from, parent_left), from + 1, to,
                     parent_left)
    ELSE C

\* reserve_branch_area without its early return for a leaf parent and a
\* child of width 1.
ReserveAlways(B, C, parent_space, parent_width, parent_span, new_child_depth, child_width) ==
    [blocks |-> UpdateParents(
                    UpdateLeft(
                        UpdateRight(B, child_width, parent_space,
                                    parent_span.right),
                        child_width, parent_space, parent_span.right),
                    child_width, parent_space, new_child_depth,
                    parent_span.right),
     chains |-> IF parent_space # 0 THEN C
                ELSE TweenChains(
                         ShiftChains(C, child_width, parent_span.right),
                         parent_width, parent_width + child_width,
                         parent_span.left)]

reserve_branch_area(B, C, parent_space, parent_width, parent_span, new_child_depth, child_width) ==
    IF parent_width = 0 /\ child_width = 1
    THEN [blocks |-> B, chains |-> C]
    ELSE LET B1 == UpdateRight(B, child_width, parent_space,
                               parent_span.right)
             B2 == UpdateLeft(B1, child_width, parent_space,
                              parent_span.right)
             B3 == UpdateParents(B2, child_width, parent_space,
                                 new_child_depth, parent_span.right)
             C1 == ShiftChains(C, child_width, parent_span.right)
             C2 == TweenChains(C1, parent_width, parent_width + child_width,
                               parent_span.left)
         IN  [blocks |-> B3,
              chains |-> IF parent_space # 0 THEN C ELSE C2]

\* A position_child_branch whose UPDATE has no WHERE clause.
PositionEveryRow(B, old_space, new_space, new_depth, new_span_left) ==
    {[b EXCEPT !.space = new_space,
               !.depth = @ + new_depth,
               !.span_left = @ + new_span_left,
               !.span_right = @ + new_span_left] : b \in B}

\* A position_child_branch that puts the tree one level too deep.
PositionOneDeeper(B, old_space, new_space, new_depth, new_span_left) ==
    {IF b.space = old_space
     THEN [b EXCEPT !.space = new_space,
                    !.depth = @ + new_depth + 1,
                    !.span_left = @ + new_span_left,
                    !.span_right = @ + new_span_left]
     ELSE b : b \in B}

position_child_branch(B, old_space, new_space, new_depth, new_span_left) ==
    {IF b.space = old_space
     THEN [b EXCEPT !.space = new_space,
                    !.depth = @ + new_depth,
                    !.span_left = @ + new_span_left,
                    !.span_right = @ + new_span_left]
     ELSE b : b \in B}

\* point_prev_statement of organize()
PointPrev(B, child_id, parent_id) ==
    {IF b.block_id = child_id
     THEN [b EXCEPT !.prev_block_id = Val(parent_id)]
     ELSE b : b \in B}

\* OrphansQuery finding only the orphan roots whose parent is in the main
\* tree.
OrphansQueryMainOnly(B) ==
    {<<c.block_id, c.space, c.depth, p.block_id>> :
        <<c, p>> \in {x \in B \X B : /\ x[1].prev_block_hash = x[2].block_hash
                                     /\ x[1].space > 0
                                     /\ x[1].depth = 0
                                     /\ x[2].space = 0}}

\* The rows of orphans_statement: <<child id, child space, child depth,
\* parent id>>.
OrphansQuery(B) ==
    {<<c.block_id, c.space, c.depth, p.block_id>> :
        <<c, p>> \in {x \in B \X B : /\ x[1].prev_block_hash = x[2].block_hash
                                     /\ x[1].space > 0
                                     /\ x[1].depth = 0}}

\* One iteration of the loop of organize() on the fetched row: the tables
\* after it, whether organize() returned early, and the iteration's locals.
OrganizeBody(B, C, row) ==
    LET child_id     == row[1]
        child_space  == row[2]
        parent_id    == row[4]
        B0           == PointPrev(B, child_id, parent_id)
        parent       == load_position_info(B0, parent_id)
        child_span   == load_span(B0, child_id)
        parent_width == get_block_width(B0, parent.space, parent.depth,
                                        parent.left, parent.right)
        child_width  == child_span.right - child_span.left + 1
        new_child_span_left ==
            IF parent_width > 0 THEN parent.right + 1 ELSE parent.right
        new_child_depth == parent.depth + 1
        parent_span  == [left |-> parent.left, right |-> parent.right]
        reserved == reserve_branch_area(B0, C, parent.space, parent_width,
                        parent_span, new_child_depth, child_width)
    IN  IF ~parent.ok \/ ~child_span.ok
        THEN [blocks |-> B0, chains |-> C, returned |-> TRUE,
              locals |-> [child_id |-> child_id, parent_id |-> parent_id,
                          parent_width |-> -1, child_width |-> -1]]
        ELSE [blocks |-> position_child_branch(reserved.blocks, child_space,
                            parent.space, new_child_depth,
                            new_child_span_left),
              chains |-> reserved.chains,
              returned |-> FALSE,
              locals |-> [child_id |-> child_id, parent_id |-> parent_id,
                          parent_width |-> parent_width,
                          child_width |-> child_width]]

\* ------------------------------------------------------------ the validator

TwoTo24 == 16777216

\* read_block: block.bits = bits_body + (bits_head << (3*8)), in uint32_t:
\* the shift keeps the low byte of bits_head.  (The blocks of this model
\* have bits_head = 1 and bits_body < 2^24, so the sum stays below 2^31.)
ReadBits(bits_head, bits_body) == bits_body + (bits_head % 256) * TwoTo24

\* A statement of validate() without its test of space.
ValidateQueryAnySpace(B) ==
    {[block_id |-> b.block_id, depth |-> b.depth, span_left |-> b.span_left,
      span_right |-> b.span_right,
      bits |-> ReadBits(b.bits_head, b.bits_body)] :
        b \in {x \in B : x.status = "orphan"}}

\* The rows of the statement of validate(), each as read_block_info and
\* read_block see it.
ValidateQuery(B) ==
    {[block_id |-> b.block_id, depth |-> b.depth, span_left |-> b.span_left,
      span_right |-> b.span_right,
      bits |-> ReadBits(b.bits_head, b.bits_body)] :
        b \in {x \in B : x.status = "orphan" /\ x.space = 0}}

\* The rows of the statement of previous_block_bits() for a block at
\* these coordinates.
PreviousBlockRows(B, depth, span_left, span_right) ==
    {p \in B : /\ p.space = 0
               /\ p.depth = depth - 1
               /\ p.span_left <= span_left
               /\ p.span_right >= span_right}

\* previous_block_bits(): the bits of the rows of its statement.
previous_block_bits(B, info) ==
    {ReadBits(p.bits_head, p.bits_body) :
        p \in PreviousBlockRows(B, info.depth, info.span_left,
                                info.span_right)}

\* A result without ORDER BY: any row may come next.
NextInAnyOrder(R) == R

\* ORDER BY depth ASC: the rows that may come next.
NextByDepth(R) == {r \in R : \A q \in R : r.depth <= q.depth}

\* The UPDATE of chains restricted to the row chain_id = span_left.
FinalizeChainsLeftOnly(C, info) ==
    LET bits_head == info.bits \div TwoTo24
        bits_body == info.bits % TwoTo24
    IN  [i \in 1..Len(C) |->
            IF C[i].chain_id = info.span_left
            THEN [C[i] EXCEPT
                    !.work = SqlAdd(@, Val(difficulty(bits_head, bits_body))),
                    !.depth = info.depth]
            ELSE C[i]]

\* finalize_status: the UPDATE of chains.
FinalizeChains(C, info) ==
    LET bits_head == info.bits \div TwoTo24
        bits_body == info.bits % TwoTo24
    IN  [i \in 1..Len(C) |->
            IF C[i].chain_id >= info.span_left
               /\ C[i].chain_id <= info.span_right
            THEN [C[i] EXCEPT
                    !.work = SqlAdd(@, Val(difficulty(bits_head, bits_body))),
                    !.depth = info.depth]
            ELSE C[i]]

\* finalize_status: the UPDATE of blocks.
FinalizeBlock(B, info) ==
    {IF b.block_id = info.block_id
     THEN [b EXCEPT !.status = "valid"]
     ELSE b : b \in B}

\* -------------------------------------------------------------- the barrier

\* timeout_ right after construction, with the two counters of the
\* barrier not yet set: no wait pending, no handler to deliver.
NewTimer ==
    [barrier_level_ |-> 0, timer_started_ |-> FALSE, waiting |-> FALSE,
     handlers |-> <<>>]

\* deadline_timer::cancel(): a pending wait completes with
\* operation_aborted; its handler is queued, to be invoked later.
cancel(b) ==
    IF b.waiting
    THEN [b EXCEPT !.waiting = FALSE,
                   !.handlers = Append(@, "operation_aborted")]
    ELSE b

\* A reset_state() that leaves the timer alone.
ResetKeepsTimer(b) ==
    [b EXCEPT !.barrier_level_ = 0, !.timer_started_ = FALSE]

reset_state(b) ==
    [cancel(b) EXCEPT !.barrier_level_ = 0, !.timer_started_ = FALSE]

\* expires_from_now() (which cancels a pending wait) and async_wait().
ArmTimer(b) ==
    [cancel(b) EXCEPT !.waiting = TRUE]

\* raise_barrier() after barrier_level_++: the barrier afterwards, the
\* start() runs made and the waits started.
RaiseBody(b1) ==
    IF b1.barrier_level_ > Clearance
    THEN [state |-> reset_state(b1), passes |-> 1, armed |-> 0]
    ELSE IF ~b1.timer_started_
    THEN [state |-> ArmTimer([b1 EXCEPT !.timer_started_ = TRUE]),
          passes |-> 0, armed |-> 1]
    ELSE [state |-> b1, passes |-> 0, armed |-> 0]

raise_barrier(b) == RaiseBody([b EXCEPT !.barrier_level_ = @ + 1])

Threads == 1..NumThreads

\* start_exec(ec): the barrier afterwards and the start() runs made.
start_exec(b, ec) ==
    LET b1 == reset_state(b)
    IN  IF ec = "operation_aborted" THEN [state |-> b1, passes |-> 0]
        ELSE IF ec # "success" THEN [state |-> b1, passes |-> 0]
        ELSE [state |-> b1, passes |-> 1]

\* ----------------------------------------------------------- connect_input

SizeMod == 2 ^ SizeWidth

MoneyMod == 2 ^ MoneyWidth

\* The hash and the index of the previous output of a coinbase input.
null_hash == 0

null_index == SizeMod - 1

\* The transactions of the store: a coinbase transaction, an ordinary
\* transaction, the transaction under validation and one more spender.
\* A transaction's hash is its transaction_id.
CoinbaseTx == 1

SpentTx == 2

CurrentTx == 3

RivalTx == 4

\* A hash no row of transactions has.
UnknownHash == 9

OutPoint(hash, index) == [hash |-> hash, index |-> index]

\* The previous outputs an input may name: the output of the coinbase
\* transaction, the two outputs of the ordinary one, an output that does
\* not exist and an output of an unknown transaction.
OutPoints ==
    {OutPoint(CoinbaseTx, 0), OutPoint(SpentTx, 0), OutPoint(SpentTx, 1),
     OutPoint(SpentTx, 5), OutPoint(UnknownHash, 0)}

\* Values of sql_to_internal(value) read as uint64_t.
OutputValues == {0, 1, max_money, max_money + 1, MoneyMod - 1}

InputRow(transaction_id, index_in_parent, point) ==
    [transaction_id |-> transaction_id, index_in_parent |-> index_in_parent,
     previous_output_hash |-> point.hash,
     previous_output_index |-> point.index]

\* The rows the queries of connect_input read, for a block at depth
\* depth whose branch holds the coinbase transaction at depth prev_depth:
\* the inputs of the transaction under validation are current_inputs, the
\* other spender spends the outputs rival.
Database(depth, prev_depth, v1, v2, current_inputs, rival) ==
    [depth |-> depth,
     transactions |-> {CoinbaseTx, SpentTx, CurrentTx, RivalTx},
     block_depth |-> [t \in {CoinbaseTx, SpentTx} |->
                         IF t = CoinbaseTx THEN prev_depth ELSE 0],
     outputs |-> {[transaction_id |-> CoinbaseTx, index_in_parent |-> 0,
                   value |-> v1],
                  [transaction_id |-> SpentTx, index_in_parent |-> 0,
                   value |-> v2],
                  [transaction_id |-> SpentTx, index_in_parent |-> 1,
                   value |-> 1]},
     current_tx |-> current_inputs,
     inputs |->
         {InputRow(CoinbaseTx, 0, OutPoint(null_hash, null_index)),
          InputRow(SpentTx, 0, OutPoint(UnknownHash, 1))}
         \cup {InputRow(CurrentTx, i - 1, current_inputs[i]) :
                   i \in 1..Len(current_inputs)}
         \cup {InputRow(RivalTx, 0, p) : p \in rival}]

\* statement::query(): a result no row of which has been fetched.
QueryResult(rows) == [rows |-> rows, fetched |-> FALSE, eof |-> FALSE]

\* statement::row(): query() followed by one next().
RowResult(rows) == [rows |-> rows, fetched |-> TRUE, eof |-> rows = {}]

\* result::empty(): the result has no current row, which is so at its
\* end and also before the first next().
ResultEmpty(r) == r.eof \/ ~r.fetched

\* is_coinbase(partial): one input, and it names the null previous output.
is_coinbase(tx_inputs) ==
    /\ Cardinality(tx_inputs) = 1
    /\ \A i \in tx_inputs :
           /\ i.previous_output_hash = null_hash
           /\ i.previous_output_index = null_index

is_coinbase_transaction(d, tx_id) ==
    is_coinbase({i \in d.inputs : i.transaction_id = tx_id})

\* The depth of the block of the same branch that holds the transaction.
previous_block_depth(d, previous_tx_id) == d.block_depth[previous_tx_id]

\* The rows of search_spends: inputs that name the same previous output
\* and are not the input at hand.
OtherSpends(d, transaction_id, input, input_index_) ==
    {i \in d.inputs :
        /\ i.previous_output_hash = input.hash
        /\ i.previous_output_index = input.index
        /\ (i.transaction_id # transaction_id
            \/ i.index_in_parent # input_index_)}

search_double_spends(d, transaction_id, input, input_index_) ==
    LET other_spends ==
            QueryResult(OtherSpends(d, transaction_id, input, input_index_))
    IN  IF ResultEmpty(other_spends) THEN FALSE ELSE TRUE

\* A connect_input without the test of output_value against max_money().
ConnectInputNoValueTest(d, transaction_id, input_index_, value_in_, script_ok) ==
    LET input == d.current_tx[input_index_ + 1]
        previous_tx ==
            RowResult({t \in d.transactions : t = input.hash})
        previous_tx_id == CHOOSE t \in previous_tx.rows : TRUE
        previous_output ==
            RowResult({o \in d.outputs :
                          /\ o.transaction_id = previous_tx_id
                          /\ o.index_in_parent = input.index})
        output_value == (CHOOSE o \in previous_output.rows : TRUE).value
        depth_difference ==
            (previous_block_depth(d, previous_tx_id) - d.depth) % SizeMod
        sum == (value_in_ + output_value) % MoneyMod
        reject == [ok |-> FALSE, value_in |-> value_in_]
    IN  IF ResultEmpty(previous_tx) THEN reject
        ELSE IF ResultEmpty(previous_output) THEN reject
        ELSE IF /\ is_coinbase_transaction(d, previous_tx_id)
                /\ depth_difference < coinbase_maturity
        THEN reject
        ELSE IF ~script_ok THEN reject
        ELSE IF search_double_spends(d, transaction_id, input, input_index_)
        THEN reject
        ELSE [ok |-> sum <= max_money, value_in |-> sum]

\* connect_input: its return value and value_in afterwards.  script_ok is
\* the outcome of output_script.run().
connect_input(d, transaction_id, input_index_, value_in_, script_ok) ==
    LET input == d.current_tx[input_index_ + 1]
        previous_tx ==
            RowResult({t \in d.transactions : t = input.hash})
        previous_tx_id == CHOOSE t \in previous_tx.rows : TRUE
        previous_output ==
            RowResult({o \in d.outputs :
                          /\ o.transaction_id = previous_tx_id
                          /\ o.index_in_parent = input.index})
        output_value == (CHOOSE o \in previous_output.rows : TRUE).value
        depth_difference ==
            (previous_block_depth(d, previous_tx_id) - d.depth) % SizeMod
        sum == (value_in_ + output_value) % MoneyMod
        reject == [ok |-> FALSE, value_in |-> value_in_]
    IN  IF ResultEmpty(previous_tx) THEN reject
        ELSE IF ResultEmpty(previous_output) THEN reject
        ELSE IF output_value > max_money THEN reject
        ELSE IF /\ is_coinbase_transaction(d, previous_tx_id)
                /\ depth_difference < coinbase_maturity
        THEN reject
        ELSE IF ~script_ok THEN reject
        ELSE IF search_double_spends(d, transaction_id, input, input_index_)
        THEN reject
        ELSE [ok |-> sum <= max_money, value_in |-> sum]

\* What connect_input reads for the input at hand, kept for the
\* properties: the previous output's value (NULL if there is none),
\* whether its transaction is a coinbase, the depth of that transaction's
\* block, and whether another input spends the same output.
InputFacts(d, transaction_id, input_index_) ==
    LET input == d.current_tx[input_index_ + 1]
        outs == {o \in d.outputs : /\ input.hash \in d.transactions
                                   /\ o.transaction_id = input.hash
                                   /\ o.index_in_parent = input.index}
    IN  [output_value |-> IF outs = {} THEN NULL
                          ELSE Val((CHOOSE o \in outs : TRUE).value),
         coinbase |-> /\ outs # {}
                      /\ is_coinbase_transaction(d, input.hash),
         prev_depth |-> IF outs # {} THEN d.block_depth[input.hash] ELSE 0,
         other_spend |->
             OtherSpends(d, transaction_id, input, input_index_) # {}]

NoCall ==
    [called |-> FALSE, ok |-> FALSE, before |-> 0, script_ok |-> FALSE,
     facts |-> [output_value |-> NULL, coinbase |-> FALSE, prev_depth |-> 0,
                other_spend |-> FALSE]]

\* ------------------------------------------------------------ time queries

\* The number of prior blocks median_time_past() looks at and the OFFSET
\* it uses once that many exist.
median_window == 11

median_offset_cap == 5

NoMeasure ==
    [fn |-> "none", block_id |-> -1, interval |-> 0,
     result |-> [ok |-> FALSE, value |-> 0]]

\* The timestamp of the trunk block at a depth under a pattern: rising,
\* falling, or neither.
TrunkTime(pat, depth) ==
    IF pat = 1 THEN 2 * depth
    ELSE IF pat = 2 THEN 2 * (MaxTrunk + MaxSide + 1 - depth)
    ELSE 2 * ((7 * depth + pat) % 13)

\* A blocks table as grafts of single blocks leave it: a trunk of depth
\* L, a side branch of k blocks forking below the trunk block at depth f,
\* and, when asked, an orphan tree of two blocks waiting in space 1.
DrawnTree(L, f, k, pat, orphan) ==
    {[block_id |-> i, parent |-> i - 1, space |-> 0, depth |-> i,
      span_left |-> 0,
      span_right |-> IF k > 0 /\ i <= f THEN 1 ELSE 0,
      when_created |-> TrunkTime(pat, i)] : i \in 0..L}
    \cup
    {[block_id |-> 20 + j, parent |-> IF j = 1 THEN f ELSE 20 + j - 1,
      space |-> 0, depth |-> f + j, span_left |-> 1, span_right |-> 1,
      when_created |-> TrunkTime(pat, f + j) + 1] : j \in 1..k}
    \cup
    (IF orphan
     THEN {[block_id |-> 40, parent |-> -1, space |-> 1, depth |-> 0,
            span_left |-> 0, span_right |-> 1, when_created |-> 99],
           [block_id |-> 41, parent |-> 40, space |-> 1, depth |-> 1,
            span_left |-> 0, span_right |-> 0, when_created |-> 98]}
     ELSE {})

\* The element at index k (from 0) of the timestamps of rows R in
\* ascending order.
KthTime(R, k) ==
    CHOOSE t \in {r.when_created : r \in R} :
        /\ Cardinality({r \in R : r.when_created < t}) <= k
        /\ k < Cardinality({r \in R : r.when_created <= t})

\* get<uint32_t>(0) on the one row of a result: no row, or a value below
\* zero, gives no uint32_t and the call throws.
GetUint32(values) ==
    IF Cardinality(values) = 1 /\ \A v \in values : v >= 0
    THEN [ok |-> TRUE, value |-> CHOOSE v \in values : TRUE]
    ELSE [ok |-> FALSE, value |-> 0]

\* A find_median statement without its test of the span.
MedianRowsAnyBranch(T, info) ==
    {r \in T : /\ r.space = 0
               /\ r.depth < info.depth
               /\ r.depth >= info.depth - median_window}

\* The rows of the find_median statement before ORDER BY, LIMIT, OFFSET.
MedianRows(T, info) ==
    {r \in T : /\ r.space = 0
               /\ r.depth < info.depth
               /\ r.depth >= info.depth - median_window
               /\ r.span_left <= info.span_left
               /\ r.span_right >= info.span_right}

median_time_past(T, info) ==
    LET median_offset == IF info.depth < median_window
                         THEN info.depth \div 2
                         ELSE median_offset_cap
        R == MedianRows(T, info)
    IN  IF median_offset < Cardinality(R)
        THEN GetUint32({KthTime(R, median_offset)})
        ELSE GetUint32({})

\* The rows of the find_start statement: pairs of a start block and an
\* end block.
TimespanRows(T, info, interval) ==
    LET begin_block_depth == info.depth - interval
        end_block_depth   == info.depth - 1
    IN  {x \in T \X T :
            /\ x[1].space = 0
            /\ x[1].depth = begin_block_depth
            /\ x[1].span_left <= info.span_left
            /\ x[1].span_right >= info.span_right
            /\ x[2].space = 0
            /\ x[2].depth = end_block_depth
            /\ x[2].span_left <= info.span_left
            /\ x[2].span_right >= info.span_right}

actual_timespan(T, info, interval) ==
    LET R == TimespanRows(T, info, interval)
    IN  IF Cardinality(R) = 1
        THEN GetUint32({x[2].when_created - x[1].when_created : x \in R})
        ELSE GetUint32({})

\* -------------------------------------------------- statement by statement

\* No operation under way: op is none, graft, delete or finalize; back is
\* the position start() is at when the operation ends; before holds the
\* tables as the operation found them; rest holds the tables after each
\* statement still to execute.
NoRunning ==
    [op |-> "none", block_id |-> -1, back |-> "idle",
     before |-> [blocks |-> {}, chains |-> <<>>], rest |-> <<>>]

Tables(B, C) == [blocks |-> B, chains |-> C]

RECURSIVE TweenStatements(_, _, _, _, _)
\* The tables after each tween_chains INSERT of reserve_branch_area.
TweenStatements(B, C, from, to, parent_left) ==
    IF from < to
    THEN LET C1 == TweenInsert(C, from, parent_left)
         IN  <<Tables(B, C1)>> \o
                 TweenStatements(B, C1, from + 1, to, parent_left)
    ELSE <<>>

\* The tables after each statement of reserve_branch_area.
ReserveStatements(B, C, parent_space, parent_width, parent_span, new_child_depth, child_width) ==
    IF parent_width = 0 /\ child_width = 1
    THEN <<>>
    ELSE LET B1 == UpdateRight(B, child_width, parent_space,
                               parent_span.right)
             B2 == UpdateLeft(B1, child_width, parent_space,
                              parent_span.right)
             B3 == UpdateParents(B2, child_width, parent_space,
                                 new_child_depth, parent_span.right)
             C1 == ShiftChains(C, child_width, parent_span.right)
         IN  <<Tables(B1, C), Tables(B2, C), Tables(B3, C)>> \o
                 (IF parent_space # 0 THEN <<>>
                  ELSE <<Tables(B3, C1)>> \o
                           TweenStatements(B3, C1, parent_width,
                                           parent_width + child_width,
                                           parent_span.left))

\* The tables after each statement of one iteration of the loop of
\* organize() on the fetched row.
GraftStatements(B, C, row) ==
    LET child_id     == row[1]
        child_space  == row[2]
        parent_id    == row[4]
        B0           == PointPrev(B, child_id, parent_id)
        parent       == load_position_info(B0, parent_id)
        child_span   == load_span(B0, child_id)
        parent_width == get_block_width(B0, parent.space, parent.depth,
                                        parent.left, parent.right)
        child_width  == child_span.right - child_span.left + 1
        new_child_span_left ==
            IF parent_width > 0 THEN parent.right + 1 ELSE parent.right
        new_child_depth == parent.depth + 1
        parent_span  == [left |-> parent.left, right |-> parent.right]
        reserve == ReserveStatements(B0, C, parent.space, parent_width,
                       parent_span, new_child_depth, child_width)
        reserved == IF reserve = <<>> THEN Tables(B0, C)
                    ELSE reserve[Len(reserve)]
    IN  IF ~parent.ok \/ ~child_span.ok
        THEN <<Tables(B0, C)>>
        ELSE <<Tables(B0, C)>> \o reserve \o
                 <<Tables(position_child_branch(reserved.blocks, child_space,
                              parent.space, new_child_depth,
                              new_child_span_left),
                          reserved.chains)>>

\* The tables after each statement of delete_branch.
DeleteStatements(B, C, space, depth, span_left, span_right) ==
    LET lonely == LonelyChildRow(B, space, depth, span_left, span_right)
        offset == IF lonely THEN span_right - span_left
                  ELSE span_right - span_left + 1
        left   == IF lonely THEN span_left + 1 ELSE span_left
        C1 == DeleteChainRows(C, left, span_right)
        C2 == ShiftChains(C1, -((span_right + 1) - left), span_right)
        C3 == IF lonely THEN unwind_chain(B, C2, depth, span_left) ELSE C2
        B1 == DeleteBlockRows(B, space, depth, span_left, span_right)
        B2 == AdjustLeft(B1, offset, space, span_right)
        B3 == AdjustRight(B2, offset, space, span_right)
    IN  <<Tables(B, C1), Tables(B, C2)>> \o
            (IF lonely THEN <<Tables(B, C3)>> ELSE <<>>) \o
            <<Tables(B1, C3), Tables(B2, C3), Tables(B3, C3)>>

\* The tables after each of the two statements of finalize_status.
FinalizeStatements(B, C, info) ==
    <<Tables(B, FinalizeChains(C, info)),
      Tables(FinalizeBlock(B, info), FinalizeChains(C, info))>>

\* ---------------------------------------------------------------- actions

InitStore ==
    /\ blocks = {GenesisRow}
    /\ chains = <<GenesisChain>>
    /\ pc = "idle"
    /\ orphans_results = {}
    /\ validate_results = {}
    /\ graft = NoGraft
    /\ seen = {GenesisId}
    /\ deletes = 0
    /\ examined = FALSE

\* The constructor: a fresh timer, reset_state(), then start(), which
\* finds the genesis block alone and changes nothing.
InitBarrier ==
    /\ barrier = reset_state(NewTimer)
    /\ op = "constructor"
    /\ passes = 1
    /\ calls = 0
    /\ arms = 0
    /\ raised = 0
    /\ tpc = [t \in Threads |-> "rest"]
    /\ treg = [t \in Threads |-> 0]

\* No transaction is under validation.
InitInputIdle ==
    /\ db = Database(0, 0, 0, 0, <<>>, {})
    /\ input_index = 0
    /\ value_in = 0
    /\ verdict = "idle"
    /\ last = NoCall

\* No multi-statement operation is under way.
InitStatements == running = NoRunning

\* No time query has run.
InitTimesIdle ==
    /\ tree = {}
    /\ measured = NoMeasure

Init ==
    /\ InitStore
    /\ InitBarrier
    /\ InitInputIdle
    /\ InitStatements
    /\ InitTimesIdle

\* The ingestion delivers a block whose previous block hash is prev.
Ingest(id, prev) ==
    /\ pc = "idle"
    /\ id \notin seen
    /\ blocks' = blocks \cup {OrphanRow(id, prev)}
    /\ seen' = seen \cup {id}
    /\ UNCHANGED <<chains, pc, orphans_results, validate_results, graft,
                   deletes, examined>>
    /\ UNCHANGED other_vars

\* start(): organize() runs its query.
Start ==
    /\ pc = "idle"
    /\ pc' = "organize"
    /\ orphans_results' = OrphansQuery(blocks)
    /\ examined' = FALSE
    /\ UNCHANGED <<blocks, chains, validate_results, graft, seen, deletes>>
    /\ UNCHANGED other_vars

\* organize(): one iteration of the loop, on any row of the result (the
\* query fixes no order).
OrganizeStep(row) ==
    /\ pc = "organize"
    /\ row \in orphans_results
    /\ LET r == OrganizeBody(blocks, chains, row)
       IN  /\ blocks' = r.blocks
           /\ chains' = r.chains
           /\ graft' = r.locals
           /\ IF r.returned
              THEN /\ pc' = "validate"
                   /\ orphans_results' = {}
                   /\ validate_results' = ValidateQuery(r.blocks)
              ELSE /\ pc' = "organize"
                   /\ orphans_results' = orphans_results \ {row}
                   /\ UNCHANGED validate_results
    /\ UNCHANGED <<seen, deletes, examined>>
    /\ UNCHANGED other_vars

\* organize() has fetched every row and returns; start() goes on to
\* validate(), which runs its query.
OrganizeReturn ==
    /\ pc = "organize"
    /\ orphans_results = {}
    /\ pc' = "validate"
    /\ validate_results' = ValidateQuery(blocks)
    /\ graft' = NoGraft
    /\ UNCHANGED <<blocks, chains, orphans_results, seen, deletes, examined>>
    /\ UNCHANGED other_vars

\* A validate() that deletes the branch of a block that fails.
ValidateStepPrunes(info, validates) ==
    /\ pc = "validate"
    /\ info \in NextByDepth(validate_results)
    /\ IF validates
       THEN /\ chains' = FinalizeChains(chains, info)
            /\ blocks' = FinalizeBlock(blocks, info)
            /\ validate_results' = validate_results \ {info}
            /\ pc' = "validate"
       ELSE /\ pc' = "exited"
            /\ validate_results' = {}
            /\ LET r == delete_branch(blocks, chains, 0, info.depth,
                                      info.span_left, info.span_right)
               IN  blocks' = r.blocks /\ chains' = r.chains
    /\ examined' = TRUE
    /\ UNCHANGED <<orphans_results, graft, seen, deletes>>
    /\ UNCHANGED other_vars

\* validate(): one iteration of the loop.  validates() is the dialect's
\* consensus check; its verdict is an input here.
ValidateStep(info, validates) ==
    /\ pc = "validate"
    /\ info \in NextByDepth(validate_results)
    /\ IF validates
       THEN /\ chains' = FinalizeChains(chains, info)
            /\ blocks' = FinalizeBlock(blocks, info)
            /\ validate_results' = validate_results \ {info}
            /\ pc' = "validate"
       ELSE /\ pc' = "exited"
            /\ validate_results' = {}
            /\ UNCHANGED <<blocks, chains>>
    /\ examined' = TRUE
    /\ UNCHANGED <<orphans_results, graft, seen, deletes>>
    /\ UNCHANGED other_vars

\* A validate() that hands control back to organize().
ValidateReturnReorganizes ==
    /\ pc = "validate"
    /\ validate_results = {}
    /\ pc' = "organize"
    /\ orphans_results' = OrphansQuery(blocks)
    /\ UNCHANGED <<blocks, chains, validate_results, graft, seen, deletes,
                   examined>>
    /\ UNCHANGED other_vars

\* validate() has fetched every row and returns, and so does start().
ValidateReturn ==
    /\ pc = "validate"
    /\ validate_results = {}
    /\ pc' = "idle"
    /\ UNCHANGED <<blocks, chains, orphans_results, validate_results, graft,
                   seen, deletes, examined>>
    /\ UNCHANGED other_vars

\* delete_branch() on the coordinates of a block.
DeleteBranch(b) ==
    /\ pc = "idle"
    /\ deletes < MaxDeletes
    /\ b \in blocks
    /\ LET r == delete_branch(blocks, chains, b.space, b.depth, b.span_left,
                              b.span_right)
       IN  /\ blocks' = r.blocks
           /\ chains' = r.chains
    /\ deletes' = deletes + 1
    /\ UNCHANGED <<pc, orphans_results, validate_results, graft, seen,
                   examined>>
    /\ UNCHANGED other_vars

Next ==
    \/ \E id \in BlockIds \ {GenesisId} : \E prev \in 0..(id - 1) :
           Ingest(id, prev)
    \/ Start
    \/ \E row \in orphans_results : OrganizeStep(row)
    \/ OrganizeReturn
    \/ \E info \in validate_results : \E validates \in BOOLEAN :
           ValidateStep(info, validates)
    \/ ValidateReturn
    \/ \E b \in blocks : DeleteBranch(b)

Spec == Init /\ [][Next]_vars

\* Another database session runs delete_branch() on the coordinates of a
\* block while organize() is between two fetches of its result.
DeleteWhileOrganizing(b) ==
    /\ pc = "organize"
    /\ deletes < MaxDeletes
    /\ b \in blocks
    /\ LET r == delete_branch(blocks, chains, b.space, b.depth, b.span_left,
                              b.span_right)
       IN  /\ blocks' = r.blocks
           /\ chains' = r.chains
    /\ deletes' = deletes + 1
    /\ UNCHANGED <<pc, orphans_results, validate_results, graft, seen,
                   examined>>
    /\ UNCHANGED other_vars

NextFault ==
    \/ Next
    \/ \E b \in blocks : DeleteWhileOrganizing(b)

\* The store shared with a second session: rows fetched by organize() may
\* be gone when it loads them.
SpecFault == Init /\ [][NextFault]_vars

\* organize() fetches a row and begins the statements of its iteration.
BeginGraft(row) ==
    /\ pc = "organize"
    /\ row \in orphans_results
    /\ LET r == OrganizeBody(blocks, chains, row)
       IN  /\ graft' = r.locals
           /\ running' = [op |-> "graft", block_id |-> row[1],
                          back |-> IF r.returned THEN "validate"
                                   ELSE "organize",
                          before |-> Tables(blocks, chains),
                          rest |-> GraftStatements(blocks, chains, row)]
    /\ pc' = "graft"
    /\ orphans_results' = orphans_results \ {row}
    /\ UNCHANGED <<blocks, chains, validate_results, seen, deletes, examined>>
    /\ UNCHANGED <<barrier_vars, thread_vars, input_vars, time_vars>>

\* validate() fetches a row; when it validates, finalize_status begins.
BeginFinalize(info, validates) ==
    /\ pc = "validate"
    /\ info \in NextByDepth(validate_results)
    /\ IF validates
       THEN /\ running' = [op |-> "finalize", block_id |-> info.block_id,
                           back |-> "validate",
                           before |-> Tables(blocks, chains),
                           rest |-> FinalizeStatements(blocks, chains, info)]
            /\ validate_results' = validate_results \ {info}
            /\ pc' = "finalize"
       ELSE /\ pc' = "exited"
            /\ validate_results' = {}
            /\ UNCHANGED running
    /\ examined' = TRUE
    /\ UNCHANGED <<blocks, chains, orphans_results, graft, seen, deletes>>
    /\ UNCHANGED <<barrier_vars, thread_vars, input_vars, time_vars>>

\* delete_branch() is called on the coordinates of a block.
BeginDelete(b) ==
    /\ pc = "idle"
    /\ deletes < MaxDeletes
    /\ b \in blocks
    /\ running' = [op |-> "delete", block_id |-> b.block_id, back |-> "idle",
                   before |-> Tables(blocks, chains),
                   rest |-> DeleteStatements(blocks, chains, b.space, b.depth,
                                             b.span_left, b.span_right)]
    /\ pc' = "delete"
    /\ deletes' = deletes + 1
    /\ UNCHANGED <<blocks, chains, orphans_results, validate_results, graft,
                   seen, examined>>
    /\ UNCHANGED <<barrier_vars, thread_vars, input_vars, time_vars>>

\* The operation under way executes its next statement, which the
\* session commits at once; after its last statement control goes back.
Statement ==
    /\ running.op # "none"
    /\ running.rest # <<>>
    /\ blocks' = Head(running.rest).blocks
    /\ chains' = Head(running.rest).chains
    /\ IF Len(running.rest) = 1
       THEN /\ running' = NoRunning
            /\ pc' = running.back
            /\ IF running.op = "graft" /\ running.back = "validate"
               THEN /\ orphans_results' = {}
                    /\ validate_results' =
                           ValidateQuery(Head(running.rest).blocks)
               ELSE UNCHANGED <<orphans_results, validate_results>>
       ELSE /\ running' = [running EXCEPT !.rest = Tail(@)]
            /\ UNCHANGED <<pc, orphans_results, validate_results>>
    /\ UNCHANGED <<graft, seen, deletes, examined>>
    /\ UNCHANGED <<barrier_vars, thread_vars, input_vars, time_vars>>

NextStatements ==
    \/ \E id \in BlockIds \ {GenesisId} : \E prev \in 0..(id - 1) :
           Ingest(id, prev)
    \/ Start
    \/ \E row \in orphans_results : BeginGraft(row)
    \/ OrganizeReturn
    \/ \E info \in validate_results : \E validates \in BOOLEAN :
           BeginFinalize(info, validates)
    \/ ValidateReturn
    \/ \E b \in blocks : BeginDelete(b)
    \/ Statement

\* The store with every statement committed on its own, as the session
\* runs them: the tables between two statements are there to be read.
SpecStatements == Init /\ [][NextStatements]_vars

\* ------------------------------------------------- actions of the barrier
\*
\* The calls below run one at a time, on the thread that runs the
\* io_service.  No block is ingested here, so each start() finds the
\* genesis block alone: organize() and validate() fetch no row and the
\* tables stay as they are.

\* The ingestion calls raise_barrier().
RaiseBarrier ==
    /\ calls < MaxCalls
    /\ Len(barrier.handlers) + (IF barrier.waiting THEN 1 ELSE 0) < MaxHandlers
    /\ LET r == raise_barrier(barrier)
       IN  /\ barrier' = r.state
           /\ passes' = r.passes
           /\ calls' = IF r.passes > 0 THEN 0 ELSE calls + 1
           /\ arms' = IF r.passes > 0 THEN 0 ELSE arms + r.armed
           /\ raised' = IF r.passes > 0 THEN 0 ELSE raised + 1
    /\ op' = "raise_barrier"
    /\ UNCHANGED <<store_vars, thread_vars, input_vars, statement_vars,
                   time_vars>>

\* The deadline passes: the pending wait completes without error and its
\* handler is queued.
TimerExpires ==
    /\ barrier.waiting
    /\ barrier' = [barrier EXCEPT !.waiting = FALSE,
                                  !.handlers = Append(@, "success")]
    /\ op' = "expire"
    /\ passes' = 0
    /\ UNCHANGED <<calls, arms, raised>>
    /\ UNCHANGED <<store_vars, thread_vars, input_vars, statement_vars,
                   time_vars>>

\* The io_service invokes the oldest queued handler: start_exec(ec).
StartExec ==
    /\ barrier.handlers # <<>>
    /\ LET ec == Head(barrier.handlers)
           r == start_exec([barrier EXCEPT !.handlers = Tail(@)], ec)
       IN  /\ barrier' = r.state
           /\ passes' = r.passes
           /\ calls' = IF r.passes > 0 THEN 0 ELSE calls
           /\ arms' = IF r.passes > 0 THEN 0 ELSE arms
           /\ op' = IF ec = "operation_aborted" THEN "start_exec aborted"
                    ELSE "start_exec"
    /\ raised' = 0
    /\ UNCHANGED <<store_vars, thread_vars, input_vars, statement_vars,
                   time_vars>>

NextBarrier ==
    \/ RaiseBarrier
    \/ TimerExpires
    \/ StartExec

SpecBarrier == Init /\ [][NextBarrier]_vars

\* ------------------------------------ raise_barrier() on several threads
\*
\* raise_barrier() takes no lock.  Each ingestion thread runs it in three
\* steps: the load and the store of barrier_level_++, then the rest of the
\* body; the handlers of the timer run in between.

\* barrier_level_++: the load.
RaiseLoad(t) ==
    /\ tpc[t] = "rest"
    /\ calls < MaxCalls
    /\ barrier.barrier_level_ < MaxLevel
    /\ Len(barrier.handlers) + (IF barrier.waiting THEN 1 ELSE 0)
           + Cardinality({u \in Threads : tpc[u] # "rest"}) < MaxHandlers
    /\ treg' = [treg EXCEPT ![t] = barrier.barrier_level_]
    /\ tpc' = [tpc EXCEPT ![t] = "loaded"]
    /\ calls' = calls + 1
    /\ op' = "raise_barrier"
    /\ UNCHANGED <<barrier, passes, arms, raised>>
    /\ UNCHANGED <<store_vars, input_vars, statement_vars, time_vars>>

\* barrier_level_++: the store.
RaiseStore(t) ==
    /\ tpc[t] = "loaded"
    /\ barrier' = [barrier EXCEPT !.barrier_level_ = treg[t] + 1]
    /\ raised' = raised + 1
    /\ tpc' = [tpc EXCEPT ![t] = "stored"]
    /\ UNCHANGED <<op, passes, calls, arms, treg>>
    /\ UNCHANGED <<store_vars, input_vars, statement_vars, time_vars>>

\* The body of raise_barrier() after the increment.
RaiseDecide(t) ==
    /\ tpc[t] = "stored"
    /\ LET r == RaiseBody(barrier)
       IN  /\ barrier' = r.state
           /\ passes' = r.passes
           /\ calls' = IF r.passes > 0 THEN 0 ELSE calls
           /\ arms' = IF r.passes > 0 THEN 0 ELSE arms + r.armed
           /\ raised' = IF r.passes > 0 THEN 0 ELSE raised
    /\ tpc' = [tpc EXCEPT ![t] = "rest"]
    /\ op' = "raise_barrier"
    /\ UNCHANGED treg
    /\ UNCHANGED <<store_vars, input_vars, statement_vars, time_vars>>

NextThreads ==
    \/ \E t \in Threads : RaiseLoad(t)
    \/ \E t \in Threads : RaiseStore(t)
    \/ \E t \in Threads : RaiseDecide(t)
    \/ TimerExpires
    \/ StartExec

SpecThreads == Init /\ [][NextThreads]_vars

\* --------------------------------------------- actions of the validator
\*
\* validate_transaction() on one transaction of a block: the store holds
\* any of the databases below, value_in starts at 0.

InitInput ==
    /\ InitStore
    /\ InitBarrier
    /\ InitStatements
    /\ InitTimesIdle
    /\ \E depth \in 0..MaxDepth : \E prev_depth \in 0..depth :
       \E v1 \in OutputValues : \E v2 \in OutputValues :
       \E n \in 1..MaxInputs : \E current_inputs \in [1..n -> OutPoints] :
       \E rival \in {{}, {OutPoint(CoinbaseTx, 0)}, {OutPoint(SpentTx, 0)}} :
           db = Database(depth, prev_depth, v1, v2, current_inputs, rival)
    /\ input_index = 0
    /\ value_in = 0
    /\ verdict = "running"
    /\ last = NoCall

\* validate_transaction(): one iteration of its loop.
ConnectInput(script_ok) ==
    /\ verdict = "running"
    /\ input_index < Len(db.current_tx)
    /\ LET r == connect_input(db, CurrentTx, input_index, value_in, script_ok)
       IN  /\ value_in' = r.value_in
           /\ last' = [called |-> TRUE, ok |-> r.ok, before |-> value_in,
                       script_ok |-> script_ok,
                       facts |-> InputFacts(db, CurrentTx, input_index)]
           /\ verdict' = IF r.ok THEN "running" ELSE "rejected"
           /\ input_index' = IF r.ok THEN input_index + 1 ELSE input_index
    /\ UNCHANGED db
    /\ UNCHANGED <<store_vars, barrier_vars, thread_vars, statement_vars,
                   time_vars>>

\* validate_transaction(): every input is connected; it returns true.
TransactionAccepted ==
    /\ verdict = "running"
    /\ input_index = Len(db.current_tx)
    /\ verdict' = "accepted"
    /\ UNCHANGED <<db, input_index, value_in, last>>
    /\ UNCHANGED <<store_vars, barrier_vars, thread_vars, statement_vars,
                   time_vars>>

NextInput ==
    \/ \E script_ok \in BOOLEAN : ConnectInput(script_ok)
    \/ TransactionAccepted

SpecInput == InitInput /\ [][NextInput]_vars

\* The deadline of a pending wait passes and the io_service gets to run
\* every queued handler; the ingestion is free to stop calling.
FairBarrier ==
    SpecBarrier /\ WF_vars(TimerExpires) /\ WF_vars(StartExec)

\* The blocks table holds one of the drawn trees; no query has run.
InitTimes ==
    /\ InitStore
    /\ InitBarrier
    /\ InitInputIdle
    /\ InitStatements
    /\ \E L \in 1..MaxTrunk : \E f \in 0..(L - 1) : \E k \in 0..MaxSide :
       \E pat \in 1..NumPatterns : \E orphan \in BOOLEAN :
           tree = DrawnTree(L, f, k, pat, orphan)
    /\ measured = NoMeasure

\* validates() asks for the median time past of the block it checks;
\* one query is followed per behaviour.
MedianTimePast(b) ==
    /\ measured.fn = "none"
    /\ b \in tree
    /\ b.space = 0
    /\ b.depth > 0
    /\ measured' = [fn |-> "median_time_past", block_id |-> b.block_id,
                    interval |-> 0,
                    result |-> median_time_past(tree, b)]
    /\ UNCHANGED tree
    /\ UNCHANGED <<store_vars, barrier_vars, thread_vars, input_vars,
                   statement_vars>>

\* validates() asks for the timespan of the interval before the block.
ActualTimespan(b, interval) ==
    /\ measured.fn = "none"
    /\ b \in tree
    /\ b.space = 0
    /\ b.depth >= interval
    /\ measured' = [fn |-> "actual_timespan", block_id |-> b.block_id,
                    interval |-> interval,
                    result |-> actual_timespan(tree, b, interval)]
    /\ UNCHANGED tree
    /\ UNCHANGED <<store_vars, barrier_vars, thread_vars, input_vars,
                   statement_vars>>

NextTimes ==
    \/ \E b \in tree : MedianTimePast(b)
    \/ \E b \in tree : \E interval \in 1..MaxInterval :
           ActualTimespan(b, interval)

SpecTimes == InitTimes /\ [][NextTimes]_vars

\* ------------------------------------------------------ forest vocabulary

RECURSIVE HashAncestors(_, _)
\* The rows of B reached from row d by following prev_block_hash links.
HashAncestors(B, d) ==
    LET P == {p \in B : p.block_hash = d.prev_block_hash}
    IN  P \cup UNION {HashAncestors(B, p) : p \in P}

\* Interval containment with smaller depth: the nested-set ancestor test.
SpanAncestor(a, d) ==
    /\ a.span_left <= d.span_left
    /\ a.span_right >= d.span_right
    /\ a.depth < d.depth

Disjoint(a, b) == a.span_right < b.span_left \/ b.span_right < a.span_left

Contains(a, b) == a.span_left <= b.span_left /\ b.span_right <= a.span_right

\* A leaf: a one-slot span with no deeper row of its space inside it.
IsLeaf(B, b) ==
    /\ b.span_left = b.span_right
    /\ ~\E x \in B : /\ x.space = b.space
                     /\ x.depth > b.depth
                     /\ x.span_left >= b.span_left
                     /\ x.span_right <= b.span_right

LeafLefts(B) == {b.span_left : b \in {x \in B : x.space = 0 /\ IsLeaf(B, x)}}

ChainIds(C) == {C[i].chain_id : i \in 1..Len(C)}

\* The work the valid blocks of space 0 whose span holds chain_id add up to.
ValidWork(B, chain_id) ==
    LET S == {b \in B : /\ b.space = 0
                        /\ b.status = "valid"
                        /\ b.span_left <= chain_id
                        /\ chain_id <= b.span_right}
        d == [b \in S |-> difficulty(b.bits_head, b.bits_body)]
    IN  SumOver(d, S)

\* ------------------------------------------------------------------ claims

\* C1: for any two blocks of one space, A is an ancestor of D through
\* prev_block_hash links iff A's span contains D's and A is less deep.
C1_AncestorIffContainment ==
    \A a \in blocks : \A d \in blocks :
        (a.space = d.space /\ a # d) =>
            (a \in HashAncestors(blocks, d) <=> SpanAncestor(a, d))

\* C1 witness: grafts have built a main tree with a block d at depth 2
\* under its parent a, and a block e beside a that is no ancestor of d.
C1_Witness ==
    \E a \in blocks : \E d \in blocks : \E e \in blocks :
        /\ a.space = 0 /\ d.space = 0 /\ e.space = 0
        /\ a.depth = 1 /\ d.depth = 2 /\ e.depth = 1
        /\ a \in HashAncestors(blocks, d) /\ SpanAncestor(a, d)
        /\ e \notin HashAncestors(blocks, d) /\ ~SpanAncestor(e, d)

\* C2: the spans of any two rows of one space are disjoint or nested.
C2_NestedSet ==
    \A a \in blocks : \A b \in blocks :
        (a.space = b.space /\ a # b) =>
            (Disjoint(a, b) \/ Contains(a, b) \/ Contains(b, a))

\* C2 witness: after grafts and a delete_branch() the main tree still has
\* a fork: two rows with disjoint spans inside the span of a third.
C2_Witness ==
    /\ deletes > 0
    /\ \E a \in blocks : \E b \in blocks : \E c \in blocks :
           /\ a.space = 0 /\ b.space = 0 /\ c.space = 0
           /\ Disjoint(a, b)
           /\ Contains(c, a) /\ Contains(c, b)
           /\ c.depth > 0

\* C3: the chain_id values of chains are exactly the span_left values of
\* the leaves of space 0.
C3_ChainsAreLeaves == ChainIds(chains) = LeafLefts(blocks)

\* C4: the chain_id values are 0..n-1 without holes and no chain_id occurs
\* in two chain rows.
C4_ChainIdsContiguousUnique ==
    /\ ChainIds(chains) = 0..(Len(chains) - 1)
    /\ \A i \in 1..Len(chains) : \A j \in 1..Len(chains) :
           chains[i].chain_id = chains[j].chain_id => i = j

\* C5: the work of every chain row is the sum of difficulty over the valid
\* blocks of space 0 whose span holds its chain_id.
C5_ChainWork ==
    \A i \in 1..Len(chains) :
        chains[i].work = Val(ValidWork(blocks, chains[i].chain_id))

\* organize() has returned after fetching every row (no load failed).
OrganizeCompleted == pc = "validate" /\ graft = NoGraft

\* C6: when organize() has run to completion, no row is left with
\* space > 0 and depth = 0 whose prev_block_hash is the block_hash of an
\* existing block.
C6_NoGraftableOrphanLeft ==
    OrganizeCompleted =>
        ~\E c \in blocks : \E p \in blocks :
            /\ c.space > 0
            /\ c.depth = 0
            /\ c.prev_block_hash = p.block_hash

\* C6 witness: organize() has completed a pass in which an orphan root (b)
\* had its parent (a) inside an orphan tree grafted in the same pass: a is
\* a child of the genesis block not yet validated, so it was grafted in
\* this pass, and b now sits under it in space 0.
C6_Witness ==
    /\ OrganizeCompleted
    /\ \E a \in blocks : \E b \in blocks :
           /\ a.prev_block_hash = GenesisRow.block_hash
           /\ a.space = 0 /\ a.depth = 1 /\ a.status = "orphan"
           /\ b.prev_block_hash = a.block_hash
           /\ b.space = 0 /\ b.depth = 2

RECURSIVE OrganizeRun(_, _, _)
\* organize() fetching the rows of its query in the order of sequence
\* rows: the tables when it returns.
OrganizeRun(B, C, rows) ==
    IF rows = <<>>
    THEN [blocks |-> B, chains |-> C]
    ELSE LET r == OrganizeBody(B, C, Head(rows))
         IN  IF r.returned
             THEN [blocks |-> r.blocks, chains |-> r.chains]
             ELSE OrganizeRun(r.blocks, r.chains, Tail(rows))

\* The orders in which the rows of set S can be fetched.
FetchOrders(S) ==
    {f \in [1..Cardinality(S) -> S] :
        \A i \in DOMAIN f : \A j \in DOMAIN f : f[i] = f[j] => i = j}

\* What a forest is up to the left-to-right order of siblings: the space,
\* the depth and the width of the span of every block.
ForestShape(B) ==
    {[block_id |-> b.block_id, space |-> b.space, depth |-> b.depth,
      width |-> b.span_right - b.span_left + 1] : b \in B}

\* Every orphan root of rows sits in its parent's space one level below
\* it, inside the parent's span, its span disjoint from its siblings'.
RootsUnderParents(B, rows) ==
    \A r \in rows :
        LET c == Row(B, r[1])
            p == Row(B, r[4])
        IN  /\ c.space = p.space
            /\ c.depth = p.depth + 1
            /\ Contains(p, c)
            /\ \A q \in rows :
                   (q[4] = r[4] /\ q[1] # r[1]) => Disjoint(c, Row(B, q[1]))

SeveralSelectSameParent(rows) ==
    \E r \in rows : \E q \in rows : r[4] = q[4] /\ r[1] # q[1]

\* C7: when several orphan roots select the same parent in one pass, then
\* for every order in which organize() fetches the pairs each root ends
\* one level below its parent, inside the parent's span and disjoint from
\* its siblings, and the forest is the same up to the order of siblings.
C7_OrderIndependent ==
    (pc = "idle" /\ SeveralSelectSameParent(OrphansQuery(blocks))) =>
        LET rows == OrphansQuery(blocks)
            any  == CHOOSE f \in FetchOrders(rows) : TRUE
        IN  \A f \in FetchOrders(rows) :
                LET done == OrganizeRun(blocks, chains, f).blocks
                IN  /\ RootsUnderParents(done, rows)
                    /\ ForestShape(done) =
                       ForestShape(OrganizeRun(blocks, chains, any).blocks)

\* An orphan tree of one block whose parent is a leaf of space 0.
SingleOrphanUnderLeaf(B, o, p) ==
    /\ o.space > 0 /\ o.depth = 0
    /\ o.span_left = 0 /\ o.span_right = 0
    /\ \A x \in B : x.space = o.space => x = o
    /\ o.prev_block_hash = p.block_hash
    /\ p.space = 0
    /\ IsLeaf(B, p)

\* The tables after organize() grafts orphan o under p and delete_branch()
\* is then called on the coordinates o has got.
GraftThenDelete(B, C, o, p) ==
    LET g == OrganizeBody(B, C, <<o.block_id, o.space, o.depth, p.block_id>>)
        n == Row(g.blocks, o.block_id)
    IN  delete_branch(g.blocks, g.chains, n.space, n.depth, n.span_left,
                      n.span_right)

\* C8: grafting a single-block orphan under a leaf parent of space 0 and
\* then deleting the grafted block by delete_branch gives back the blocks
\* table (but for the deleted orphan's row) and the chains table.
C8_GraftDeleteRoundTrip ==
    pc = "idle" =>
        \A o \in blocks : \A p \in blocks :
            SingleOrphanUnderLeaf(blocks, o, p) =>
                LET r == GraftThenDelete(blocks, chains, o, p)
                IN  /\ r.blocks = blocks \ {o}
                    /\ r.chains = chains

\* The rows of one space differ from row b at most in the coordinates
\* and in prev_block_id.
SameButPosition(b, n) ==
    n = [b EXCEPT !.space = n.space, !.depth = n.depth,
                  !.span_left = n.span_left, !.span_right = n.span_right,
                  !.prev_block_id = n.prev_block_id]

\* C9: a graft under a parent with span_left = span_right and no
\* descendants, of an orphan tree of width 1, changes only the rows of the
\* orphan tree (their space, depth, span and prev_block_id): every other
\* block row and every chain row stays as it is.
C9_LeafGraftFrame ==
    [][\A row \in orphans_results \ orphans_results' :
          LET c == Row(blocks, row[1])
              p == Row(blocks, row[4])
          IN  (IsLeaf(blocks, p) /\ c.span_right - c.span_left + 1 = 1) =>
                  /\ chains' = chains
                  /\ \A b \in blocks : b.space # c.space => b \in blocks'
                  /\ \A b \in blocks : b.space = c.space =>
                         \E n \in blocks' : SameButPosition(b, n)
                  /\ Cardinality(blocks') = Cardinality(blocks)]_vars

\* C9 witness: organize() has just grafted a width-1 orphan tree under a
\* leaf parent (parent_width = 0) of the main tree while the main tree
\* holds other rows and a second chain.
C9_Witness ==
    /\ pc = "organize"
    /\ graft.parent_width = 0
    /\ graft.child_width = 1
    /\ Row(blocks, graft.parent_id).space = 0
    /\ Len(chains) >= 2
    /\ \E b \in blocks : b.space = 0 /\ ~Contains(b, Row(blocks, graft.child_id))

\* The children of p: the rows of its space one level below it inside its
\* span.
Children(B, p) ==
    {k \in B : /\ k.space = p.space
               /\ k.depth = p.depth + 1
               /\ Contains(p, k)}

\* C10: grafting a single-block orphan under a parent of space 0 with span
\* [l,l] that has one child at [l,l] gives the parent span [l,l+1], leaves
\* the child as it is, puts the new block at [l+1,l+1] one level below the
\* parent, shifts every row strictly to the right by 1, and adds exactly
\* one chain row, with chain_id = l+1 and the work and depth of the row
\* chain_id = l.
C10_ForkGraft ==
    [][\A row \in orphans_results \ orphans_results' :
          LET c == Row(blocks, row[1])
              p == Row(blocks, row[4])
              l == p.span_left
          IN  (/\ p.space = 0
               /\ p.span_left = p.span_right
               /\ Cardinality(Children(blocks, p)) = 1
               /\ c.span_left = 0 /\ c.span_right = 0
               /\ \A x \in blocks : x.space = c.space => x = c) =>
                  /\ [p EXCEPT !.span_right = l + 1] \in blocks'
                  /\ Children(blocks, p) \subseteq blocks'
                  /\ LET n == Row(blocks', c.block_id)
                     IN  /\ n.space = 0
                         /\ n.depth = p.depth + 1
                         /\ n.span_left = l + 1
                         /\ n.span_right = l + 1
                  /\ \A b \in blocks :
                         (b.space = 0 /\ b.span_left > l) =>
                             [b EXCEPT !.span_left = @ + 1,
                                       !.span_right = @ + 1] \in blocks'
                  /\ Len(chains') = Len(chains) + 1
                  /\ Cardinality({i \in 1..Len(chains') :
                                     chains'[i].chain_id = l + 1}) = 1
                  /\ \E i \in 1..Len(chains') : \E j \in 1..Len(chains) :
                         /\ chains'[i].chain_id = l + 1
                         /\ chains[j].chain_id = l
                         /\ chains'[i].work = chains[j].work
                         /\ chains'[i].depth = chains[j].depth]_vars

\* ------------------------------------------------------ claims C11 .. C20

\* C11: when a block passes validation, finalize_status adds the
\* difficulty of the block's stored bits once to the work of every chain
\* row with span_left <= chain_id <= span_right (in SQL arithmetic: the sum
\* with a NULL work is NULL), sets the depth of those rows to the block's
\* depth, leaves every other chain row as it is, and sets the status of the
\* block, and of no other block, to valid.
C11_FinalizeStatus ==
    [][(pc = "validate" /\ pc' = "validate") =>
          \A info \in validate_results \ validate_results' :
              LET b == Row(blocks, info.block_id)
                  d == difficulty(b.bits_head, b.bits_body)
              IN  /\ Len(chains') = Len(chains)
                  /\ \A i \in 1..Len(chains) :
                         IF /\ b.span_left <= chains[i].chain_id
                            /\ chains[i].chain_id <= b.span_right
                         THEN chains'[i] =
                                  [chains[i] EXCEPT
                                      !.work = SqlAdd(@, Val(d)),
                                      !.depth = b.depth]
                         ELSE chains'[i] = chains[i]
                  /\ blocks' = (blocks \ {b})
                                   \cup {[b EXCEPT !.status = "valid"]}]_vars

\* C11 witness: validate() has marked valid a block whose span holds two
\* chains, both of which now carry that block's depth, while a chain
\* outside the span exists and rows are still to be fetched.
C11_Witness ==
    /\ pc = "validate"
    /\ examined
    /\ validate_results # {}
    /\ \E b \in blocks :
           /\ b.block_id # GenesisId
           /\ b.space = 0
           /\ b.status = "valid"
           /\ b.span_left < b.span_right
           /\ \A i \in 1..Len(chains) :
                  (b.span_left <= chains[i].chain_id
                   /\ chains[i].chain_id <= b.span_right) =>
                      chains[i].depth = b.depth
           /\ \E i \in 1..Len(chains) : chains[i].chain_id > b.span_right

\* C20: within one start(), no row of validate() is fetched while
\* organize() still runs, and validate() runs only when organize() has no
\* row left to graft.
C20_OrganizeBeforeValidate ==
    /\ pc = "organize" => ~examined
    /\ pc = "validate" => orphans_results = {}

\* C20 witness: validate() is at work on the main tree that organize()
\* has extended by grafts: one grafted block is marked valid, another is
\* still to be fetched.
C20_Witness ==
    /\ pc = "validate"
    /\ examined
    /\ validate_results # {}
    /\ \E b \in blocks :
           b.block_id # GenesisId /\ b.space = 0 /\ b.status = "valid"

\* C15: the raise_barrier() call that takes barrier_level_ above the
\* clearance level runs start() once within the call, and leaves
\* barrier_level_ = 0, timer_started_ false and no wait pending.
C15_ClearanceCrossing ==
    [][(op' = "raise_barrier" /\ barrier.barrier_level_ + 1 > Clearance) =>
          /\ passes' = 1
          /\ barrier'.barrier_level_ = 0
          /\ ~barrier'.timer_started_
          /\ ~barrier'.waiting]_vars

\* C15 witness: a raise_barrier() call has just crossed the clearance
\* level while a wait was pending: the wait is cancelled (its handler is
\* queued) and start() has run.
C15_Witness ==
    /\ op = "raise_barrier"
    /\ passes = 1
    /\ barrier.barrier_level_ = 0
    /\ barrier.handlers # <<>>
    /\ barrier.handlers[Len(barrier.handlers)] = "operation_aborted"

\* C16: while a burst of 1 .. Clearance raise_barrier() calls has had no
\* start() yet, exactly one wait was started for it; and the handler of a
\* wait that completed without error runs start() once.
C16_OneTimerPerBurst ==
    /\ (calls >= 1 /\ calls <= Clearance) => arms = 1
    /\ op = "start_exec" => passes = 1

\* C17: start_exec(operation_aborted) runs no start() and leaves
\* barrier_level_, timer_started_ and the timer as they are: of the
\* barrier only the delivered handler is gone.
C17_AbortedDoesNothing ==
    [][op' = "start_exec aborted" =>
          /\ passes' = 0
          /\ barrier' = [barrier EXCEPT !.handlers = Tail(@)]]_vars

\* C18: every raise_barrier() call is followed by a start() that begins
\* after it.
C18_EveryCallGetsAStart == (calls > 0) ~> (calls = 0)

\* C19: raise_barrier() calls from several threads act as if one ran
\* after the other: barrier_level_ counts every increment made since the
\* last reset_state() (none is lost), at most one wait is pending, and one
\* call runs at most one start().
C19_Serialized ==
    /\ barrier.barrier_level_ = raised
    /\ barrier.waiting \in BOOLEAN
    /\ passes <= 1

\* C12: connect_input rejects an input that spends an output of a
\* coinbase transaction whenever the depth of the current block minus the
\* depth of the coinbase's block (in the same branch, not above the
\* current block) is less than coinbase_maturity.
C12_ImmatureCoinbaseRejected ==
    (/\ last.called
     /\ last.facts.coinbase
     /\ db.depth >= last.facts.prev_depth
     /\ db.depth - last.facts.prev_depth < coinbase_maturity) => ~last.ok

\* C13: when another input row (another transaction_id or another
\* index_in_parent) names the same previous output as the input at hand,
\* connect_input returns false and the transaction is rejected.
C13_DoubleSpendRejected ==
    (last.called /\ last.facts.other_spend) =>
        (~last.ok /\ verdict = "rejected")

\* C14: connect_input rejects when the previous output's value exceeds
\* max_money or when value_in plus that value exceeds max_money; after an
\* accepted input value_in is the unwrapped sum and at most max_money, and
\* the addition never wraps.
C14_MaxMoney ==
    /\ verdict \in {"running", "accepted"} => value_in <= max_money
    /\ (last.called /\ ~IsNull(last.facts.output_value)) =>
           LET output_value == last.facts.output_value[1]
           IN  /\ (\/ output_value > max_money
                   \/ last.before + output_value > max_money) => ~last.ok
               /\ last.ok => /\ value_in = last.before + output_value
                             /\ value_in <= max_money
               /\ value_in \in {last.before, last.before + output_value}

\* C14 witness: the second input of a transaction takes value_in above
\* max_money, by an output whose own value is within max_money, and is
\* rejected.
C14_Witness ==
    /\ last.called
    /\ ~last.ok
    /\ verdict = "rejected"
    /\ last.before > 0
    /\ ~IsNull(last.facts.output_value)
    /\ last.facts.output_value[1] <= max_money
    /\ value_in > max_money

\* ------------------------------------------------------ claims C21 .. C30

\* The valid rows of space 0 one level above these coordinates whose span
\* holds them.
ValidParents(B, depth, span_left, span_right) ==
    {p \in PreviousBlockRows(B, depth, span_left, span_right) :
        p.status = "valid"}

\* C21: validate() takes the orphan blocks of space 0 by ascending depth:
\* the parent of the block it takes next is valid already, and every valid
\* block of space 0 with depth > 0 has a valid parent.
C21_ParentValidFirst ==
    /\ \A b \in blocks :
           (b.space = 0 /\ b.status = "valid" /\ b.depth > 0) =>
               ValidParents(blocks, b.depth, b.span_left, b.span_right) # {}
    /\ pc = "validate" =>
           \A info \in NextByDepth(validate_results) :
               info.depth > 0 =>
                   ValidParents(blocks, info.depth, info.span_left,
                                info.span_right) # {}

\* C21 witness: validate() has marked valid a block at depth 2 or deeper
\* and has rows at several depths still to fetch.
C21_Witness ==
    /\ pc = "validate"
    /\ examined
    /\ \E b \in blocks : b.space = 0 /\ b.status = "valid" /\ b.depth >= 2
    /\ \E x \in validate_results : \E y \in validate_results :
           x.depth < y.depth

\* C23: when a block fails validation the loop halts: no block row and no
\* chain row changes, and the failing block and every block still to be
\* fetched keep their rows with status orphan.
C23_FailureHalts ==
    [][pc' = "exited" =>
          /\ blocks' = blocks
          /\ chains' = chains
          /\ \A info \in validate_results :
                 /\ HasRow(blocks', info.block_id)
                 /\ Row(blocks', info.block_id).status = "orphan"]_vars

\* C23 witness: validate() has halted on a failing block after it marked
\* another block valid, with two rows left unprocessed.
C23_Witness ==
    /\ pc = "exited"
    /\ \E b \in blocks :
           b.block_id # GenesisId /\ b.space = 0 /\ b.status = "valid"
    /\ Cardinality({b \in blocks : b.space = 0 /\ b.status = "orphan"}) >= 2

\* C26: every block row has 0 <= span_left <= span_right and depth >= 0,
\* and every chain_id is >= 0: no subtraction of delete_branch or
\* delete_chains goes below zero.
C26_NoUnderflow ==
    /\ \A b \in blocks :
           /\ 0 <= b.span_left
           /\ b.span_left <= b.span_right
           /\ b.depth >= 0
    /\ \A i \in 1..Len(chains) : chains[i].chain_id >= 0

\* C26 witness: delete_branch() has removed a subtree from a main tree
\* that still holds a fork, a row at depth 2 and a chain_id above 0.
C26_Witness ==
    /\ deletes > 0
    /\ \E b \in blocks : b.space = 0 /\ b.depth >= 2
    /\ \E b \in blocks : b.space = 0 /\ b.span_left < b.span_right
    /\ \E i \in 1..Len(chains) : chains[i].chain_id > 0

\* C30: for every block of space 0 at depth d > 0 the statement of
\* previous_block_bits() has exactly one row, that of the block's parent.
C30_OneParentRow ==
    \A b \in blocks :
        (b.space = 0 /\ b.depth > 0) =>
            LET P == PreviousBlockRows(blocks, b.depth, b.span_left,
                                       b.span_right)
            IN  /\ Cardinality(P) = 1
                /\ \A p \in P : p.block_hash = b.prev_block_hash
                /\ Cardinality(previous_block_bits(blocks, b)) = 1

\* C30 witness: the main tree has a block at depth 2 while two rows lie
\* at depth 1, one of them its parent.
C30_Witness ==
    \E b \in blocks : \E p \in blocks : \E q \in blocks :
        /\ b.space = 0 /\ p.space = 0 /\ q.space = 0
        /\ b.depth = 2 /\ p.depth = 1 /\ q.depth = 1
        /\ p # q
        /\ p.block_hash = b.prev_block_hash

\* The rows of B that are b or lie above it: same space, less deep or b
\* itself, span holding b's.
Trunk(B, b) ==
    {a \in B : a.space = b.space /\ a.depth <= b.depth /\ Contains(a, b)}

\* The difficulty the valid rows of the trunk of b add up to.
TrunkWork(B, b) ==
    LET S == {a \in Trunk(B, b) : a.status = "valid"}
        d == [a \in S |-> difficulty(a.bits_head, a.bits_body)]
    IN  SumOver(d, S)

\* C27: a graft under a parent of space 0 that inserts chain rows gives
\* each inserted row the work of the valid blocks from the root down to
\* the parent, without the valid blocks below the parent.
C27_NewChainWork ==
    [][\A row \in orphans_results \ orphans_results' :
          LET p == Row(blocks, row[4])
          IN  (p.space = 0 /\ Len(chains') > Len(chains)) =>
                  \A i \in (Len(chains) + 1)..Len(chains') :
                      chains'[i].work = Val(TrunkWork(blocks, p))]_vars

\* The rows a step has deleted.
DeletedRows ==
    {b \in blocks : ~HasRow(blocks', b.block_id)}

\* C29: a delete_branch() on a subtree of a space other than 0, and a
\* graft under a parent of a space other than 0, leave every chain row
\* as it is.
C29_ChainsOnlyForSpaceZero ==
    [][/\ (deletes' # deletes /\ \A b \in DeletedRows : b.space # 0) =>
              chains' = chains
       /\ \A row \in orphans_results \ orphans_results' :
              Row(blocks, row[4]).space # 0 => chains' = chains]_vars

\* The subtree of b: the rows of its space at its depth or deeper inside
\* its span.
Subtree(B, b) ==
    {x \in B : x.space = b.space /\ x.depth >= b.depth /\ Contains(b, x)}

\* The rows one level above b whose span holds b's.
ParentsOf(B, b) ==
    {p \in B : p.space = b.space /\ p.depth = b.depth - 1 /\ Contains(p, b)}

\* The difficulty of the valid rows of the subtree of b whose span holds
\* chain_id.
SubtreeWork(B, b, chain_id) ==
    LET S == {x \in Subtree(B, b) : /\ x.status = "valid"
                                    /\ x.span_left <= chain_id
                                    /\ chain_id <= x.span_right}
        d == [x \in S |-> difficulty(x.bits_head, x.bits_body)]
    IN  SumOver(d, S)

\* Chain rows C without those of chain_id in from..to, the higher ones
\* renumbered downwards by shrink.
ChainsWithout(C, from, to, shrink) ==
    LET Keep(c) == ~(c.chain_id >= from /\ c.chain_id <= to)
        K == SelectSeq(C, Keep)
    IN  [i \in 1..Len(K) |->
            IF K[i].chain_id > to
            THEN [K[i] EXCEPT !.chain_id = @ - shrink]
            ELSE K[i]]

\* C28: delete_branch() on the coordinates of a block removes exactly the
\* rows of its subtree and keeps the nested-set structure.  When the
\* block is its parent's only child the parent's span shrinks to one
\* slot (the width less one goes from every ancestor and every row to
\* the right) and, in space 0, chain row l stays with the difficulty of
\* the deleted valid blocks subtracted while rows l+1..r go; otherwise
\* the whole width goes from every ancestor and every row to the right
\* and, in space 0, chain rows l..r go; higher chain_ids are renumbered.
C28_DeleteBranch ==
    [][deletes' # deletes =>
          \A b \in DeletedRows :
              (\A x \in DeletedRows : x.depth >= b.depth) =>
                  LET l == b.span_left
                      r == b.span_right
                      only == \E p \in ParentsOf(blocks, b) :
                                  Children(blocks, p) = {b}
                      shrink == IF only THEN r - l ELSE r - l + 1
                      K == ChainsWithout(chains, IF only THEN l + 1 ELSE l,
                                         r, shrink)
                  IN  /\ DeletedRows = Subtree(blocks, b)
                      /\ Cardinality(blocks') =
                             Cardinality(blocks) - Cardinality(DeletedRows)
                      /\ \A x \in blocks' : \A y \in blocks' :
                             (x.space = y.space /\ x # y) =>
                                 \/ Disjoint(x, y)
                                 \/ Contains(x, y)
                                 \/ Contains(y, x)
                      /\ \A x \in blocks \ DeletedRows :
                             IF x.space # b.space
                             THEN x \in blocks'
                             ELSE [x EXCEPT
                                     !.span_left =
                                         IF @ > r THEN @ - shrink ELSE @,
                                     !.span_right =
                                         IF @ >= r THEN @ - shrink ELSE @]
                                      \in blocks'
                      /\ b.space = 0 =>
                             chains' =
                                 [i \in 1..Len(K) |->
                                     IF only /\ K[i].chain_id = l
                                     THEN [K[i] EXCEPT !.work =
                                            SqlSub(@, Val(SubtreeWork(
                                                        blocks, b, l)))]
                                     ELSE K[i]]]_vars

\* organize() returned early in this run: a load failed.
OrganizeAborted ==
    /\ pc = "validate"
    /\ graft # NoGraft
    /\ graft.parent_width = -1

\* C22: when load_position_info or load_span fails in organize(), the
\* run is aborted: organize() takes no further pair and nothing later in
\* the same start() changes a block row or a chain row.
C22_AbortedRunMutatesNothing ==
    [][OrganizeAborted =>
          /\ pc' # "organize"
          /\ blocks' = blocks
          /\ chains' = chains]_vars

\* C24: finalize_status is atomic: in no state have the chain rows taken
\* the block's difficulty while the block's status is still orphan.
C24_FinalizeAtomic ==
    running.op = "finalize" =>
        ~(/\ chains # running.before.chains
          /\ Row(blocks, running.block_id).status = "orphan")

\* C25: each graft and each delete_branch() is one transaction: while
\* one is under way the tables are as it found them or as it leaves
\* them, and the spans of any two rows of one space are disjoint or
\* nested.
C25_OneTransaction ==
    running.op \in {"graft", "delete"} =>
        /\ \/ Tables(blocks, chains) = running.before
           \/ Tables(blocks, chains) = running.rest[Len(running.rest)]
        /\ \A a \in blocks : \A b \in blocks :
               (a.space = b.space /\ a # b) =>
                   (Disjoint(a, b) \/ Contains(a, b) \/ Contains(b, a))

\* ------------------------------------------------------ claims C31 .. C36

\* C33: an iteration of organize() changes no status and leaves the rows
\* outside the child's space and the parent's space as they are; an
\* iteration of validate() changes no space, depth or span: it changes
\* status and chain rows only.
C33_OrganizerValidatorFrame ==
    [][/\ \A row \in orphans_results \ orphans_results' :
              LET c == Row(blocks, row[1])
                  p == Row(blocks, row[4])
              IN  \A b \in blocks :
                      /\ HasRow(blocks', b.block_id)
                      /\ Row(blocks', b.block_id).status = b.status
                      /\ b.space \notin {c.space, p.space} => b \in blocks'
       /\ (pc = "validate" /\ validate_results' # validate_results) =>
              /\ Cardinality(blocks') = Cardinality(blocks)
              /\ \A b \in blocks :
                     \/ b \in blocks'
                     \/ [b EXCEPT !.status = "valid"] \in blocks']_vars

\* C33 witness: validate() has marked valid a block that organize()
\* grafted while another orphan tree of two levels stayed in its space.
C33_Witness ==
    /\ pc = "validate"
    /\ examined
    /\ \E b \in blocks : /\ b.block_id # GenesisId
                         /\ b.status = "valid"
                         /\ ~IsNull(b.prev_block_id)
    /\ \E b \in blocks : b.space > 0 /\ b.depth > 0

\* The depth of the deepest valid block of space 0 whose span holds
\* chain_id, -1 when there is none.
TipDepth(B, chain_id) ==
    LET S == {b \in B : /\ b.space = 0
                        /\ b.status = "valid"
                        /\ b.span_left <= chain_id
                        /\ chain_id <= b.span_right}
    IN  IF S = {} THEN -1
        ELSE CHOOSE d \in {b.depth : b \in S} :
                 \A b \in S : b.depth <= d

\* C34: the depth of every chain row is the depth of the deepest valid
\* block of space 0 whose span holds its chain_id.
C34_ChainDepth ==
    \A i \in 1..Len(chains) :
        chains[i].depth = TipDepth(blocks, chains[i].chain_id)

\* The rows of b's space reached from b by prev_block_hash links
\* downwards.
RECURSIVE HashDescendants(_, _)
HashDescendants(B, b) ==
    LET K == {k \in B : k.space = b.space /\ k.prev_block_hash = b.block_hash}
    IN  K \cup UNION {HashDescendants(B, k) : k \in K}

\* The number of slots b needs: its leaf descendants, or 1 for a leaf.
LeafCount(B, b) ==
    LET D == HashDescendants(B, b)
        L == {d \in D : HashDescendants(B, d) = {}}
    IN  IF D = {} THEN 1 ELSE Cardinality(L)

\* C35: after any sequence of grafts the span of every block has one
\* slot for each leaf among its descendants, or one slot when the block
\* is a leaf.
C35_NoUnusedSlot ==
    deletes = 0 =>
        \A b \in blocks :
            b.span_right - b.span_left + 1 = LeafCount(blocks, b)

\* Every valid block is in space 0.
ValidInMainTree ==
    \A b \in blocks : b.status = "valid" => b.space = 0

\* C36: status moves from orphan to valid only, a block becomes valid
\* only while in space 0, no step takes a block out of space 0, and
\* every valid block is in space 0.
C36_StatusMonotone ==
    /\ []ValidInMainTree
    /\ [][\A b \in blocks :
              HasRow(blocks', b.block_id) =>
                  LET n == Row(blocks', b.block_id)
                  IN  /\ b.status = "valid" => n.status = "valid"
                      /\ n.status # b.status => (b.space = 0 /\ n.space = 0)
                      /\ b.space = 0 => n.space = 0]_vars

\* C36 witness: validate() has marked a grafted block valid while an
\* orphan tree of two levels waits in a space of its own and a
\* delete_branch() has run.
C36_Witness ==
    /\ deletes > 0
    /\ \E b \in blocks : b.space = 0 /\ b.depth > 0 /\ b.status = "valid"
    /\ \E b \in blocks : b.space > 0 /\ b.depth > 0 /\ b.status = "orphan"

\* The row of tree with this id.
TreeRow(id) == CHOOSE r \in tree : r.block_id = id

RECURSIVE TreeAncestors(_)
\* The rows of tree above row b along its parent links.
TreeAncestors(b) ==
    LET P == {p \in tree : p.block_id = b.parent /\ p.space = b.space}
    IN  P \cup UNION {TreeAncestors(p) : p \in P}

Min(a, b) == IF a < b THEN a ELSE b

\* C31: for a block at depth d > 0 median_time_past() returns the element
\* at index min(5, d / 2) of the ascending creation times of its
\* n = min(11, d) nearest ancestors on its own branch, which is their
\* element at index n / 2; no block of another branch is counted.
C31_MedianTimePast ==
    measured.fn = "median_time_past" =>
        LET b == TreeRow(measured.block_id)
            d == b.depth
            n == Min(median_window, d)
            A == {a \in TreeAncestors(b) : a.depth >= d - n}
        IN  /\ Cardinality(A) = n
            /\ Min(median_offset_cap, d \div 2) = n \div 2
            /\ MedianRows(tree, b) = A
            /\ measured.result.ok
            /\ measured.result.value = KthTime(A, n \div 2)

\* C31 witness: the query ran for a block at depth 12 or more of a trunk
\* with timestamps in no order, beside a side branch and an orphan tree.
C31_Witness ==
    /\ measured.fn = "median_time_past"
    /\ TreeRow(measured.block_id).depth >= median_window + 1
    /\ \E r \in tree : r.span_left = 1
    /\ \E r \in tree : r.space = 1
    /\ \E x \in tree : \E y \in tree :
           /\ x.space = 0 /\ y.space = 0
           /\ x.depth < y.depth /\ x.when_created > y.when_created
    /\ \E x \in tree : \E y \in tree :
           /\ x.space = 0 /\ y.space = 0
           /\ x.depth < y.depth /\ x.when_created < y.when_created

\* C32: for a block at depth d >= interval actual_timespan(interval)
\* returns the creation time of its ancestor at depth d - 1 minus that of
\* its ancestor at depth d - interval, both on its own branch.
C32_ActualTimespan ==
    measured.fn = "actual_timespan" =>
        LET b == TreeRow(measured.block_id)
            A == TreeAncestors(b)
        IN  \A s \in A : \A e \in A :
                (s.depth = b.depth - measured.interval
                 /\ e.depth = b.depth - 1) =>
                    /\ measured.result.ok
                    /\ measured.result.value =
                           e.when_created - s.when_created

=============================================================================
